---- MODULE Spec2Model ----
(***************************************************************************)
(* PageAgent (src/src/PageAgent.ts): the step loop of execute(), the macro *)
(* tool it hands to the model client, #onDone and dispose(), as a state    *)
(* machine.  Every await of the code is a position (pc) of a call, so that *)
(* overlapping execute() calls, dispose() and the paused flag interleave   *)
(* exactly where the event loop lets them.                                 *)
(*                                                                         *)
(* Not modelled (opaque pass-through, no effect on control flow): the      *)
(* brain texts and the usage numbers of a history record, the prompt       *)
(* texts, the DOM tree, the panel and the mask.                            *)
(***************************************************************************)
EXTENDS Integers, Sequences, FiniteSets

\* ------------------------------------------------------------------ bounds

\* execute() calls made on the one agent
MaxCalls == 2
\* #llm.invoke calls the model client serves in all
MaxLlmCalls == 2
\* dispose() calls made on the agent (the beforeunload listener's included)
MaxDispose == 1
\* import { MAX_STEPS } from './config/constants'; small here
MAX_STEPS == 1

Calls == 1..MaxCalls

\* the task strings a caller passes: the empty one and a real one
TaskArgs == {"", "a"}

\* measured tool latencies, in ms (Date.now() - startTime)
Durations == {0, 600}

\* ------------------------------------------------------ tools and decisions

\* the built-in tool names (import { tools } from './tools'): a page action,
\* the wait tool, the terminal tool and one that the configuration removes
BuiltinTools == {"click", "wait", "done", "ask_user"}

\* config.customTools of the modelled agent: ask_user: null
RemovedTools == {"ask_user"}

\* a variant of the constructor that keeps the tools of the null entries
toolsNullKept == BuiltinTools

\* constructor: this.tools = new Map(tools), then the null entries deleted
tools == BuiltinTools \ RemovedTools

\* #packMacroTool: the keys of the union's variants, one per entry of this.tools
ActionSchema == tools

\* ---------------------------------------------------- the tool registry
\* A Map is a function on its keys; a tool is "builtin" or "custom".

\* a name that no built-in tool has
ExtraTool == "extra"

ToolNames == BuiltinTools \cup {ExtraTool}

\* Object.entries(customTools) lists the entries in a fixed order
NameOrder == <<"click", "wait", "done", "ask_user", "extra">>

\* the values config.customTools may hold: per name a tool, null, or no entry
CustomToolsChoices == UNION {[ns -> {"custom", "null"}] : ns \in SUBSET ToolNames}

\* customTools of the agent whose tasks are modelled: each removed tool: null
ConfiguredCustomTools == [n \in RemovedTools |-> "null"]

\* the module-level Map `tools` (./tools)
BuiltinMap == [n \in BuiltinTools |-> "builtin"]

MapDelete(m, k) == [x \in DOMAIN m \ {k} |-> m[x]]

\* a variant of Map.set that keeps the value of a key that is present
MapSetIfAbsent(m, k, v) == [x \in DOMAIN m \cup {k} |-> IF x \in DOMAIN m THEN m[x] ELSE v]

MapSet(m, k, v) == [x \in DOMAIN m \cup {k} |-> IF x = k THEN v ELSE m[x]]

\* Object.entries(customTools)
Entries(ct) == SelectSeq(NameOrder, LAMBDA n : n \in DOMAIN ct)

\* the constructor's loop over the entries: delete on null, set otherwise
RECURSIVE ApplyEntries(_, _, _)
ApplyEntries(m, ct, es) ==
    IF es = <<>> THEN m
    ELSE LET name == Head(es)
             next == IF ct[name] = "null" THEN MapDelete(m, name)
                     ELSE MapSet(m, name, ct[name])
         IN  ApplyEntries(next, ct, Tail(es))

\* this.tools after the constructor
Registry(ct) == ApplyEntries(BuiltinMap, ct, Entries(ct))

Unconstructed(ct) == [customTools |-> ct, tools |-> BuiltinMap, constructed |-> FALSE]

Constructed(ct) == [customTools |-> ct, tools |-> Registry(ct), constructed |-> TRUE]

\* a decision: `action` lists the keys of input.action in order, `name` is the
\* one the code selects, the other fields are the selected tool's input
Dec(n, s, k, b, t) ==
    [name |-> n, seconds |-> s, keys |-> k, success |-> b, text |-> t, action |-> <<n>>]

\* Object.keys(action)[0]
FirstKey(action) == IF Len(action) = 0 THEN "undefined" ELSE action[1]

\* a decision whose action object holds the keys `action`
ActionDec(action) == [Dec(FirstKey(action), 0, {}, FALSE, "") EXCEPT !.action = action]

\* action objects without the single key: none, and two tools at once
MalformedDecisions == {ActionDec(<<>>), ActionDec(<<"click", "wait">>)}

NoDecision == Dec("none", 0, {}, FALSE, "")

\* the inputs of done the model may send: both fields, an empty text, none
DoneInputs ==
    { Dec("done", 0, {"success", "text"}, TRUE, "X"),
      Dec("done", 0, {"success", "text"}, TRUE, ""),
      Dec("done", 0, {}, FALSE, "") }

\* what the model may select in one step: input.action = { name: input }
Decisions ==
    { Dec("click", 0, {}, FALSE, ""),
      Dec("wait", 2, {}, FALSE, ""),
      Dec("ask_user", 0, {}, FALSE, "") } \cup DoneInputs

\* action.input?.success ?? false
DoneSuccess(d) == IF "success" \in d.keys THEN d.success ELSE FALSE

\* a variant of the text default that keeps an empty text: ?? in place of ||
DoneTextNullish(d) == IF "text" \in d.keys THEN d.text ELSE "no text provided"

\* action.input?.text || 'no text provided'
DoneText(d) == IF "text" \in d.keys /\ d.text # "" THEN d.text ELSE "no text provided"

\* Math.round(toolInput.seconds + duration / 1000), duration in ms
WaitAdd(seconds, duration) == (seconds * 1000 + duration + 500) \div 1000

\* if (this.#totalWaitTime >= 3) result += 'Do NOT wait any longer ...'
WaitAdvisoryThreshold == 3

\* the tool's output text, as far as the wait accounting changes it: the
\* <sys> suffix and, in it, the advisory sentence
Output(sys, advisory) == [sys |-> sys, advisory |-> advisory]

\* ---------------------------------------------------------- error texts

StepLimitText == "Step count exceeded maximum limit"
ErrTaskRequired == "Error: Task is required"
ErrAbort == "Error: AbortError"
ErrLlmAbort == "Error: request aborted"
ErrDecode == "Error: decode failure"
ErrToolNotFound == "Error: tool not found"
ErrTool == "Error: tool execution failure"
ErrHook == "Error: hook failure"

\* ------------------------------------------------------------------ state

VARIABLES
    task,            \* this.task
    taskId,          \* this.taskId (0: '', then fresh numbers)
    history,         \* this.history
    abortController, \* this.#abortController: the id of the current controller
    aborted,         \* the controllers whose signal is aborted
    owner,           \* observation: the call whose prologue installed the current controller (0: the constructor)
    totalWaitTime,   \* this.#totalWaitTime
    paused,          \* this.paused
    disposed,        \* this.disposed
    nDispose,        \* dispose() calls so far
    llmCalls,        \* #llm.invoke calls started so far
    pc,              \* where each execute() call stands
    step,            \* the local `step` of each call
    llmSignal,       \* the signal each call handed to its #llm.invoke
    decision,        \* the decision of each call's current step
    output,          \* the output string of each call's current tool execution
    result,          \* the ExecutionResult each call has built
    live,            \* the calls whose result.history is still the array this.history
    trace,           \* per call: the hooks and #onDone it invoked, in order
    nEmit,           \* per call: the bus.emit calls it made
    calledDisposed,  \* per call: this.disposed when execute() was called
    last,            \* what the latest step handed to a caller of execute(), if anything
    nav,             \* the NavigationDetector instances and the browser APIs they patch
    ctor             \* the constructor's input config.customTools and the registry this.tools

shared == <<task, taskId, history, abortController, aborted, owner, totalWaitTime,
            paused, disposed, nDispose, llmCalls>>
local == <<pc, step, llmSignal, decision, output, result, live, trace, nEmit,
           calledDisposed>>
vars == <<shared, local, last, nav, ctor>>

\* groups that many steps leave alone
idVars == <<task, taskId>>
envVars == <<paused, disposed, nDispose>>
finishVars == <<aborted, nEmit, result, live, trace>>

NoResult == [success |-> FALSE, data |-> "", history |-> <<>>]
NoOutput == Output(FALSE, FALSE)

Ev(e, n, len, ok, data) == [ev |-> e, n |-> n, len |-> len, ok |-> ok, data |-> data]

\* what a caller gets when its execute() settles: the result returned or the
\* error thrown, with the call's step counter, last decision and trace
Outcome(c, kind, res, e, tr) ==
    [call |-> c, kind |-> kind, result |-> res, err |-> e, step |-> step[c],
     decision |-> decision[c], trace |-> tr, calledDisposed |-> calledDisposed[c]]

NoOutcome ==
    [call |-> 0, kind |-> "none", result |-> NoResult, err |-> "", step |-> 0,
     decision |-> NoDecision, trace |-> <<>>, calledDisposed |-> FALSE]

AgentInit ==
    /\ task = ""
    /\ taskId = 0
    /\ history = <<>>
    /\ abortController = 0
    /\ aborted = {}
    /\ owner = 0
    /\ totalWaitTime = 0
    /\ paused = FALSE
    /\ disposed = FALSE
    /\ nDispose = 0
    /\ llmCalls = 0
    /\ pc = [c \in Calls |-> "idle"]
    /\ step = [c \in Calls |-> 0]
    /\ llmSignal = [c \in Calls |-> 0]
    /\ decision = [c \in Calls |-> NoDecision]
    /\ output = [c \in Calls |-> NoOutput]
    /\ result = [c \in Calls |-> NoResult]
    /\ live = {}
    /\ trace = [c \in Calls |-> <<>>]
    /\ nEmit = [c \in Calls |-> 0]
    /\ calledDisposed = [c \in Calls |-> FALSE]
    /\ last = NoOutcome

\* ---------------------------------------------------------------------------
\* NavigationDetector (utils/NavigationDetector.ts).  A function value is the
\* stack of layers put around the browser's native implementation, outermost
\* first; two function values are the same object exactly when their stacks
\* are equal.

MaxDetectors == 2
MaxNavCalls == 4
MaxPatches == 1
MaxApiCalls == 1
MaxClicks == 2
MaxUnloads == 1
MaxTime == 100

\* time is counted in ms and passes in steps of TickMs
TickMs == 50

\* setTimeout(..., 100) of the click handler
PredictionTimeoutMs == 100

Detectors == 1..MaxDetectors

\* keys of wrappedFunctions: `${target.constructor.name}.${prop}`
Apis == {"History.pushState", "History.replaceState", "Location.href",
         "Location.assign", "Location.replace", "Window.open"}

Events == {"popstate", "beforeunload", "click"}

Layer(kind, by) == [kind |-> kind, by |-> by]

Native == <<>>

\* original.bind(target): a new function object around the original
Bind(f) == <<Layer("bind", 0)>> \o f

\* what reading Location.prototype.href yields: the getter's value, not a function
HrefValue == <<Layer("string", 0)>>

NoEntry == [has |-> FALSE, original |-> Native, wrapped |-> Native]

NavStart(h) ==
    [hrefOnPrototype  |-> h,
     enabled          |-> [d \in Detectors |-> FALSE],
     impl             |-> [a \in Apis |-> Native],
     wrappedFunctions |-> [d \in Detectors |-> [a \in Apis |-> NoEntry]],
     boundHandlers    |-> [d \in Detectors |-> {}],
     listeners        |-> [d \in Detectors |-> [e \in Events |-> 0]],
     currentInstance  |-> 0,
     nNavCalls        |-> 0,
     nPatches         |-> 0,
     nApiCalls        |-> 0,
     called           |-> "",   \* the API called latest
     \* per detector: the callback invocations made by the latest API call
     delivered        |-> [d \in Detectors |-> 0],
     now              |-> 0,
     nClicks          |-> 0,
     nUnloads         |-> 0,
     \* per detector: lastClickPrediction (0: null, else the number of the
     \* click it was made for) and the due times of its pending timers
     lastClickPrediction |-> [d \in Detectors |-> 0],
     timers           |-> [d \in Detectors |-> {}],
     \* per detector: what the latest beforeunload delivered to its callback
     unload           |-> [d \in Detectors |-> <<>>],
     \* observation only: the latest click the detector predicted from and
     \* has not yet reported or dropped by disable(), and its time
     clickPred        |-> [d \in Detectors |-> 0],
     clickAt          |-> [d \in Detectors |-> 0],
     \* observation only: the implementations at d's latest enable(), and
     \* whether nothing but d itself has patched an API since
     pre              |-> [d \in Detectors |-> [a \in Apis |-> Native]],
     clean            |-> [d \in Detectors |-> FALSE]]

\* target[prop] as unwrapAll reads it
ReadProp(n, a) == IF a = "Location.href" THEN HrefValue ELSE n.impl[a]

\* wrapFunction, and the href branch of wrapLocationAPIs, for one key:
\* the new implementation and the new wrappedFunctions entry
WrapFunction(n, d, a) ==
    LET entry   == n.wrappedFunctions[d][a]
        bound   == Bind(n.impl[a])
        wrapped == <<Layer("wrap", d)>> \o bound
        done    == [impl |-> wrapped,
                    entry |-> [has |-> TRUE, original |-> bound, wrapped |-> wrapped]]
        skip    == [impl |-> n.impl[a], entry |-> entry]
    IN  IF a = "Location.href"
        THEN IF n.hrefOnPrototype THEN done ELSE skip
        ELSE IF entry.has THEN skip ELSE done

\* unwrapAll for one entry: restore only if our wrapper is still active
UnwrapOne(n, d, a) ==
    LET entry == n.wrappedFunctions[d][a]
    IN  IF entry.has /\ ReadProp(n, a) = entry.wrapped
        THEN entry.original
        ELSE n.impl[a]

Others(n, d, c) == [e \in Detectors |-> IF e = d THEN c ELSE FALSE]

Enable(d) ==
    /\ nav.nNavCalls < MaxNavCalls
    /\ nav' = IF nav.enabled[d]
              THEN [nav EXCEPT !.nNavCalls = @ + 1]
              ELSE [nav EXCEPT
                      !.nNavCalls = @ + 1,
                      !.enabled[d] = TRUE,
                      !.currentInstance = d,
                      !.impl = [a \in Apis |-> WrapFunction(nav, d, a).impl],
                      !.wrappedFunctions[d] = [a \in Apis |-> WrapFunction(nav, d, a).entry],
                      !.listeners[d] = [e \in Events |-> @[e] + 1],
                      !.boundHandlers[d] = Events,
                      !.pre[d] = nav.impl,
                      !.clean = Others(nav, d, TRUE)]
    /\ UNCHANGED <<shared, local, last, ctor>>

Disable(d) ==
    /\ nav.nNavCalls < MaxNavCalls
    /\ nav' = IF ~nav.enabled[d]
              THEN [nav EXCEPT !.nNavCalls = @ + 1]
              ELSE [nav EXCEPT
                      !.nNavCalls = @ + 1,
                      !.enabled[d] = FALSE,
                      !.impl = [a \in Apis |-> UnwrapOne(nav, d, a)],
                      !.wrappedFunctions[d] = [a \in Apis |-> NoEntry],
                      !.listeners[d] = [e \in Events |->
                                          IF e \in nav.boundHandlers[d] THEN @[e] - 1 ELSE @[e]],
                      !.boundHandlers[d] = {},
                      !.lastClickPrediction[d] = 0,
                      !.clickPred[d] = 0,
                      !.currentInstance = IF @ = d THEN 0 ELSE @,
                      !.clean = Others(nav, d, FALSE)]
    /\ UNCHANGED <<shared, local, last, ctor>>

\* the APIs whose wrappers find their detector through the static currentInstance
LocationApis == {"Location.href", "Location.assign", "Location.replace"}

\* the detector a wrapper made by d for API a reports to: `this` for the
\* history and window.open wrappers, getCurrentInstance() for the location ones
Reporter(n, d, a) == IF a \in LocationApis THEN n.currentInstance ELSE d

\* calling the function f installed for API a runs every wrapper layer of it,
\* outermost first, each calling the function it wraps: the callback
\* invocations per detector, added to `count`
RECURSIVE Invoke(_, _, _, _)
Invoke(n, a, f, count) ==
    IF f = <<>> THEN count
    ELSE LET layer == Head(f)
             r == IF layer.kind = "wrap" THEN Reporter(n, layer.by, a) ELSE 0
             emits == r # 0 /\ n.enabled[r]
         IN  Invoke(n, a, Tail(f),
                    IF emits THEN [count EXCEPT ![r] = @ + 1] ELSE count)

\* page code calls a patched API (for href: assigns a URL other than the
\* current one, on a page whose Location.prototype has the setter)
CallApi(a) ==
    /\ nav.nApiCalls < MaxApiCalls
    /\ a = "Location.href" => nav.hrefOnPrototype
    /\ nav' = [nav EXCEPT
                 !.nApiCalls = @ + 1,
                 !.called = a,
                 !.delivered = Invoke(nav, a, nav.impl[a], [d \in Detectors |-> 0])]
    /\ UNCHANGED <<shared, local, last, ctor>>

\* the detectors whose handler for event e runs: registered, and enabled
Handling(n, e) == {d \in Detectors : n.listeners[d][e] > 0 /\ n.enabled[d]}

PredictionEvent(k) == [type |-> "prediction", click |-> k]

CloseWindowEvent == [type |-> "close-window", click |-> 0]

\* a click on a link, button or form; `predicted`: predictNavigation returns
\* an event for it
Click(predicted) ==
    /\ nav.nClicks < MaxClicks
    /\ LET k == nav.nClicks + 1
           hs == IF predicted THEN Handling(nav, "click") ELSE {}
       IN  nav' = [nav EXCEPT
                     !.nClicks = k,
                     !.lastClickPrediction = [d \in Detectors |-> IF d \in hs THEN k ELSE @[d]],
                     !.timers = [d \in Detectors |->
                                   IF d \in hs THEN @[d] \cup {nav.now + PredictionTimeoutMs}
                                   ELSE @[d]],
                     !.clickPred = [d \in Detectors |-> IF d \in hs THEN k ELSE @[d]],
                     !.clickAt = [d \in Detectors |-> IF d \in hs THEN nav.now ELSE @[d]]]
    /\ UNCHANGED <<shared, local, last, ctor>>

\* a timer of a click handler is due and runs: lastClickPrediction = null
TimerFire(d) ==
    /\ \E t \in nav.timers[d] :
          /\ t <= nav.now
          /\ nav' = [nav EXCEPT
                       !.timers[d] = @ \ {t},
                       !.lastClickPrediction[d] = 0]
    /\ UNCHANGED <<shared, local, last, ctor>>

\* time passes; timers run when they are due
Tick ==
    /\ nav.now + TickMs <= MaxTime
    /\ \A d \in Detectors : \A t \in nav.timers[d] : t > nav.now
    /\ nav' = [nav EXCEPT !.now = @ + TickMs]
    /\ UNCHANGED <<shared, local, last, ctor>>

\* beforeunload fires
BeforeUnload ==
    /\ nav.nUnloads < MaxUnloads
    /\ LET hs == Handling(nav, "beforeunload")
       IN  nav' = [nav EXCEPT
                     !.nUnloads = @ + 1,
                     !.unload = [d \in Detectors |->
                                   IF d \notin hs THEN <<>>
                                   ELSE IF nav.lastClickPrediction[d] # 0
                                   THEN <<PredictionEvent(nav.lastClickPrediction[d])>>
                                   ELSE <<CloseWindowEvent>>],
                     !.lastClickPrediction = [d \in Detectors |-> IF d \in hs THEN 0 ELSE @[d]],
                     !.clickPred = [d \in Detectors |-> IF d \in hs THEN 0 ELSE @[d]]]
    /\ UNCHANGED <<shared, local, last, ctor>>

\* page code outside the detector replaces an API by its own wrapper
ThirdPartyPatch(a) ==
    /\ nav.nPatches < MaxPatches
    /\ a # "Location.href"
    /\ nav' = [nav EXCEPT
                 !.nPatches = @ + 1,
                 !.impl[a] = <<Layer("user", 0)>> \o @,
                 !.clean = [d \in Detectors |-> FALSE]]
    /\ UNCHANGED <<shared, local, last, ctor>>

Init ==
    /\ AgentInit
    /\ nav = NavStart(FALSE)
    /\ ctor = Constructed(ConfiguredCustomTools)

\* ------------------------------------------------------- shared helpers

\* waitUntil(check) (import from './utils'): settles once check() holds
WaitUntil(check) == check

\* a variant of the pause check that does not read the flag: () => true
UnpausedUnread == TRUE

\* the check both pause points pass to waitUntil: () => !this.paused
Unpaused == ~paused

\* uid(): a value no earlier call returned
Uid(prev) == prev + 1

\* a variant of the controller swap that leaves the old signal as it is
SupersedeNoAbort ==
    /\ aborted' = aborted
    /\ abortController' = abortController + 1

\* this.#abortController.abort(); this.#abortController = new AbortController()
Supersede ==
    /\ aborted' = aborted \cup {abortController}
    /\ abortController' = abortController + 1

\* #onDone: this.#abortController.abort() -- whichever controller is current
OnDoneAborted == aborted \cup {abortController}

\* a variant of the end of a step that drops the record
PushNone(rec) ==
    /\ history' = history
    /\ result' = result

\* this.history.push(record): every result built from the same array sees it
Push(rec) ==
    /\ history' = Append(history, rec)
    /\ result' = [c \in Calls |->
                    IF c \in live THEN [result[c] EXCEPT !.history = Append(history, rec)]
                    ELSE result[c]]

\* #onDone(data, success), then the ExecutionResult { success, data, history:
\* this.history } and the call of onAfterTask with it; `em` events were emitted
\* before; the call then awaits the hook at `next`
Finish(c, success, data, em, next) ==
    /\ aborted' = OnDoneAborted
    /\ nEmit' = [nEmit EXCEPT ![c] = @ + em + 2]
    /\ result' = [result EXCEPT ![c] = [success |-> success, data |-> data,
                                        history |-> history]]
    /\ live' = live \cup {c}
    /\ trace' = [trace EXCEPT ![c] = @ \o
                    << Ev("onDone", 0, 0, success, data),
                       Ev("onAfterTask", 0, 0, success, data) >>]
    /\ pc' = [pc EXCEPT ![c] = next]

\* catch (error): #onDone(String(error), false), the Failure result, onAfterTask
Catch(c, e, em) == Finish(c, FALSE, e, em, "afterTaskC")

\* execute() settles: the caller gets the outcome and the call's frame is gone
Settle(c, kind, res, e, tr) ==
    /\ last' = Outcome(c, kind, res, e, tr)
    /\ pc' = [pc EXCEPT ![c] = kind]
    /\ step' = [step EXCEPT ![c] = 0]
    /\ llmSignal' = [llmSignal EXCEPT ![c] = 0]
    /\ decision' = [decision EXCEPT ![c] = NoDecision]
    /\ output' = [output EXCEPT ![c] = NoOutput]
    /\ result' = [result EXCEPT ![c] = NoResult]
    /\ live' = live \ {c}
    /\ trace' = [trace EXCEPT ![c] = <<>>]
    /\ nEmit' = [nEmit EXCEPT ![c] = 0]
    /\ calledDisposed' = [calledDisposed EXCEPT ![c] = FALSE]

\* ------------------------------------------------------------- execute()

\* the caller of call c gets the 'Task is required' error
Rejected(c) ==
    /\ pc' = [pc EXCEPT ![c] = "thrown"]
    /\ last' = [Outcome(c, "thrown", NoResult, ErrTaskRequired, <<>>)
                    EXCEPT !.calledDisposed = disposed]

\* a variant of the empty-task check placed after `this.taskId = uid()`
RejectAfterAssign(c) ==
    /\ Rejected(c)
    /\ task' = ""
    /\ taskId' = Uid(taskId)
    /\ UNCHANGED <<trace, calledDisposed>>

\* if (!task) throw new Error('Task is required'), the first statement
Reject(c) ==
    /\ Rejected(c)
    /\ UNCHANGED <<task, taskId, trace, calledDisposed>>

\* execute(task), up to `await onBeforeTask.call(this)`; the calls are numbered
\* in the order they are made
ExecuteCall(c, t) ==
    /\ pc[c] = "idle"
    /\ \A d \in Calls : d < c => pc[d] # "idle"
    /\ IF t = ""
       THEN Reject(c)
       ELSE /\ task' = t
            /\ taskId' = Uid(taskId)
            /\ calledDisposed' = [calledDisposed EXCEPT ![c] = disposed]
            /\ trace' = [trace EXCEPT ![c] = Append(@, Ev("onBeforeTask", 0, 0, TRUE, ""))]
            /\ pc' = [pc EXCEPT ![c] = "beforeTask"]
            /\ last' = NoOutcome
    /\ UNCHANGED <<history, abortController, aborted, totalWaitTime, envVars, llmCalls,
                   step, llmSignal, decision, output, result, live, nEmit>>
    /\ UNCHANGED <<nav, owner, ctor>>

\* onBeforeTask settles; then the panel events, the controller swap, the
\* history reset, `let step = 0` and the call of onBeforeStep(0)
BeforeTaskDone(c, ok) ==
    /\ pc[c] = "beforeTask"
    /\ IF ~ok
       THEN /\ Settle(c, "thrown", NoResult, ErrHook, trace[c])
            /\ UNCHANGED <<history, abortController, aborted>>
       ELSE /\ nEmit' = [nEmit EXCEPT ![c] = @ + 3]
            /\ Supersede
            /\ history' = <<>>
            /\ live' = {}
            /\ step' = [step EXCEPT ![c] = 0]
            /\ trace' = [trace EXCEPT ![c] = Append(@, Ev("onBeforeStep", 0, 0, TRUE, ""))]
            /\ pc' = [pc EXCEPT ![c] = "beforeStep"]
            /\ last' = NoOutcome
            /\ UNCHANGED <<llmSignal, decision, output, result, calledDisposed>>
    /\ owner' = IF ok THEN c ELSE owner
    /\ UNCHANGED <<idVars, totalWaitTime, envVars, llmCalls>>
    /\ UNCHANGED <<nav, ctor>>

\* onBeforeStep settles; then the abort check and the call of waitUntil
BeforeStepDone(c, ok) ==
    /\ pc[c] = "beforeStep"
    /\ IF ~ok THEN Catch(c, ErrHook, 0)
       ELSE IF abortController \in aborted THEN Catch(c, ErrAbort, 0)
       ELSE /\ pc' = [pc EXCEPT ![c] = "pause1"]
            /\ UNCHANGED finishVars
    /\ last' = NoOutcome
    /\ UNCHANGED <<idVars, history, abortController, totalWaitTime, envVars, llmCalls,
                   step, llmSignal, decision, output, calledDisposed>>
    /\ UNCHANGED <<nav, owner, ctor>>

\* waitUntil(() => !this.paused) resolves; the thinking event; #llm.invoke(...,
\* this.#abortController.signal) is started (the model client serves
\* MaxLlmCalls requests in all)
Pause1(c) ==
    /\ pc[c] = "pause1"
    /\ WaitUntil(Unpaused)
    /\ llmCalls < MaxLlmCalls
    /\ nEmit' = [nEmit EXCEPT ![c] = @ + 1]
    /\ llmCalls' = llmCalls + 1
    /\ llmSignal' = [llmSignal EXCEPT ![c] = abortController]
    /\ pc' = [pc EXCEPT ![c] = "llm"]
    /\ last' = NoOutcome
    /\ UNCHANGED <<idVars, history, abortController, aborted, totalWaitTime, envVars,
                   step, decision, output, result, live, trace, calledDisposed>>
    /\ UNCHANGED <<nav, owner, ctor>>

\* the model client rejects: its signal is aborted
LlmReject(c) ==
    /\ pc[c] = "llm"
    /\ llmSignal[c] \in aborted
    /\ Catch(c, ErrLlmAbort, 0)
    /\ last' = NoOutcome
    /\ UNCHANGED <<idVars, history, abortController, totalWaitTime, envVars, llmCalls,
                   step, llmSignal, decision, output, calledDisposed>>
    /\ UNCHANGED <<nav, owner, ctor>>

\* the model client rejects: the output does not decode against the schema
LlmFail(c) ==
    /\ pc[c] = "llm"
    /\ Catch(c, ErrDecode, 0)
    /\ last' = NoOutcome
    /\ UNCHANGED <<idVars, history, abortController, totalWaitTime, envVars, llmCalls,
                   step, llmSignal, decision, output, calledDisposed>>
    /\ UNCHANGED <<nav, owner, ctor>>

\* the model client decoded a decision and calls the macro tool's execute with
\* it: the abort check on the current controller, then waitUntil
LlmDecoded(c, d) ==
    /\ pc[c] = "llm"
    /\ decision' = [decision EXCEPT ![c] = d]
    /\ IF abortController \in aborted THEN Catch(c, ErrAbort, 0)
       ELSE /\ pc' = [pc EXCEPT ![c] = "pause2"]
            /\ UNCHANGED finishVars
    /\ last' = NoOutcome
    /\ UNCHANGED <<idVars, history, abortController, totalWaitTime, envVars, llmCalls,
                   step, llmSignal, output, calledDisposed>>
    /\ UNCHANGED <<nav, owner, ctor>>

\* a variant of the macro tool without its waitUntil: the tool is looked up and
\* started as soon as the decision has passed the abort check
Pause2NoWait(c) ==
    /\ pc[c] = "pause2"
    /\ IF decision[c].name \notin tools
       THEN Catch(c, ErrToolNotFound, 1)
       ELSE /\ nEmit' = [nEmit EXCEPT ![c] = @ + 2]
            /\ pc' = [pc EXCEPT ![c] = "tool"]
            /\ UNCHANGED <<aborted, result, live, trace>>
    /\ last' = NoOutcome
    /\ UNCHANGED <<idVars, history, abortController, totalWaitTime, envVars, llmCalls,
                   step, llmSignal, decision, output, calledDisposed>>
    /\ UNCHANGED <<nav, owner, ctor>>

\* waitUntil resolves inside the macro tool; the thinking event; the tool is
\* looked up (assert) and its execute is started
Pause2(c) ==
    /\ pc[c] = "pause2"
    /\ WaitUntil(Unpaused)
    /\ IF decision[c].name \notin tools
       THEN Catch(c, ErrToolNotFound, 1)
       ELSE /\ nEmit' = [nEmit EXCEPT ![c] = @ + 2]
            /\ pc' = [pc EXCEPT ![c] = "tool"]
            /\ UNCHANGED <<aborted, result, live, trace>>
    /\ last' = NoOutcome
    /\ UNCHANGED <<idVars, history, abortController, totalWaitTime, envVars, llmCalls,
                   step, llmSignal, decision, output, calledDisposed>>
    /\ UNCHANGED <<nav, owner, ctor>>

\* tool.execute throws
ToolThrow(c) ==
    /\ pc[c] = "tool"
    /\ Catch(c, ErrTool, 0)
    /\ last' = NoOutcome
    /\ UNCHANGED <<idVars, history, abortController, totalWaitTime, envVars, llmCalls,
                   step, llmSignal, decision, output, calledDisposed>>
    /\ UNCHANGED <<nav, owner, ctor>>

\* a variant of the wait accounting without its else branch: a tool other than
\* wait leaves the accumulator as it is
ToolReturnNoReset(c, dur) ==
    /\ pc[c] = "tool"
    /\ IF decision[c].name = "wait"
       THEN LET w == totalWaitTime + WaitAdd(decision[c].seconds, dur) IN
            /\ totalWaitTime' = w
            /\ output' = [output EXCEPT ![c] = Output(TRUE, w >= WaitAdvisoryThreshold)]
       ELSE /\ totalWaitTime' = totalWaitTime
            /\ output' = [output EXCEPT ![c] = NoOutput]
    /\ nEmit' = [nEmit EXCEPT ![c] = @ + 1]
    /\ pc' = [pc EXCEPT ![c] = "delay"]
    /\ last' = NoOutcome
    /\ UNCHANGED <<idVars, history, abortController, aborted, envVars, llmCalls, step,
                   llmSignal, decision, result, live, trace, calledDisposed>>
    /\ UNCHANGED <<nav, owner, ctor>>

\* tool.execute returns after `dur` ms: the wait accounting, the completed
\* event, and the 100 ms timer is started
ToolReturn(c, dur) ==
    /\ pc[c] = "tool"
    /\ IF decision[c].name = "wait"
       THEN LET w == totalWaitTime + WaitAdd(decision[c].seconds, dur) IN
            /\ totalWaitTime' = w
            /\ output' = [output EXCEPT ![c] = Output(TRUE, w >= WaitAdvisoryThreshold)]
       ELSE /\ totalWaitTime' = 0
            /\ output' = [output EXCEPT ![c] = NoOutput]
    /\ nEmit' = [nEmit EXCEPT ![c] = @ + 1]
    /\ pc' = [pc EXCEPT ![c] = "delay"]
    /\ last' = NoOutcome
    /\ UNCHANGED <<idVars, history, abortController, aborted, envVars, llmCalls, step,
                   llmSignal, decision, result, live, trace, calledDisposed>>
    /\ UNCHANGED <<nav, owner, ctor>>

\* the timer fires and #llm.invoke resolves: the record is pushed and
\* onAfterStep(step, this.history) is called
DelayDone(c) ==
    /\ pc[c] = "delay"
    /\ Push([by |-> c, step |-> step[c], name |-> decision[c].name, output |-> output[c]])
    /\ trace' = [trace EXCEPT ![c] =
                    Append(@, Ev("onAfterStep", step[c], Len(history) + 1, TRUE, ""))]
    /\ pc' = [pc EXCEPT ![c] = "afterStep"]
    /\ last' = NoOutcome
    /\ UNCHANGED <<idVars, abortController, aborted, totalWaitTime, envVars, llmCalls,
                   step, llmSignal, decision, output, live, nEmit, calledDisposed>>
    /\ UNCHANGED <<nav, owner, ctor>>

\* a variant of the end of a step that tests for done before the step limit
AfterStepDoneDoneFirst(c, ok) ==
    /\ pc[c] = "afterStep"
    /\ IF ~ok
       THEN /\ Catch(c, ErrHook, 0)
            /\ UNCHANGED <<step, decision, output>>
       ELSE /\ step' = [step EXCEPT ![c] = @ + 1]
            /\ IF decision[c].name = "done"
               THEN /\ Finish(c, DoneSuccess(decision[c]), DoneText(decision[c]), 0,
                              "afterTask")
                    /\ UNCHANGED <<decision, output>>
               ELSE IF step[c] + 1 > MAX_STEPS
               THEN /\ Finish(c, FALSE, StepLimitText, 0, "afterTask")
                    /\ UNCHANGED <<decision, output>>
               ELSE /\ trace' = [trace EXCEPT ![c] =
                                   Append(@, Ev("onBeforeStep", step[c] + 1, 0, TRUE, ""))]
                    /\ pc' = [pc EXCEPT ![c] = "beforeStep"]
                    /\ decision' = [decision EXCEPT ![c] = NoDecision]
                    /\ output' = [output EXCEPT ![c] = NoOutput]
                    /\ UNCHANGED <<aborted, nEmit, result, live>>
    /\ last' = NoOutcome
    /\ UNCHANGED <<idVars, history, abortController, totalWaitTime, envVars, llmCalls,
                   llmSignal, calledDisposed>>
    /\ UNCHANGED <<nav, owner, ctor>>

\* onAfterStep settles; step++, the step limit, the done check, or the next
\* iteration's call of onBeforeStep(step)
AfterStepDone(c, ok) ==
    /\ pc[c] = "afterStep"
    /\ IF ~ok
       THEN /\ Catch(c, ErrHook, 0)
            /\ UNCHANGED <<step, decision, output>>
       ELSE /\ step' = [step EXCEPT ![c] = @ + 1]
            /\ IF step[c] + 1 > MAX_STEPS
               THEN /\ Finish(c, FALSE, StepLimitText, 0, "afterTask")
                    /\ UNCHANGED <<decision, output>>
               ELSE IF decision[c].name = "done"
               THEN /\ Finish(c, DoneSuccess(decision[c]), DoneText(decision[c]), 0,
                              "afterTask")
                    /\ UNCHANGED <<decision, output>>
               ELSE /\ trace' = [trace EXCEPT ![c] =
                                   Append(@, Ev("onBeforeStep", step[c] + 1, 0, TRUE, ""))]
                    /\ pc' = [pc EXCEPT ![c] = "beforeStep"]
                    /\ decision' = [decision EXCEPT ![c] = NoDecision]
                    /\ output' = [output EXCEPT ![c] = NoOutput]
                    /\ UNCHANGED <<aborted, nEmit, result, live>>
    /\ last' = NoOutcome
    /\ UNCHANGED <<idVars, history, abortController, totalWaitTime, envVars, llmCalls,
                   llmSignal, calledDisposed>>
    /\ UNCHANGED <<nav, owner, ctor>>

\* onAfterTask, called inside the try block, settles: return result, or the
\* catch block takes its error
AfterTaskDone(c, ok) ==
    /\ pc[c] = "afterTask"
    /\ IF ok
       THEN /\ Settle(c, "returned", result[c], "", trace[c])
            /\ UNCHANGED aborted
       ELSE /\ Catch(c, ErrHook, 0)
            /\ last' = NoOutcome
            /\ UNCHANGED <<step, llmSignal, decision, output, calledDisposed>>
    /\ UNCHANGED <<idVars, history, abortController, totalWaitTime, envVars, llmCalls>>
    /\ UNCHANGED <<nav, owner, ctor>>

\* onAfterTask, called inside the catch block, settles: return result, or
\* execute() rejects with the hook's error
AfterTaskCatchDone(c, ok) ==
    /\ pc[c] = "afterTaskC"
    /\ IF ok
       THEN Settle(c, "returned", result[c], "", trace[c])
       ELSE Settle(c, "thrown", NoResult, ErrHook, trace[c])
    /\ UNCHANGED shared
    /\ UNCHANGED <<nav, owner, ctor>>

\* ------------------------------------------------- the agent's other inputs

\* agent.paused = b
SetPaused(b) ==
    /\ paused # b
    /\ paused' = b
    /\ last' = NoOutcome
    /\ UNCHANGED <<idVars, history, abortController, aborted, totalWaitTime, disposed,
                   nDispose, llmCalls, local>>
    /\ UNCHANGED <<nav, owner, ctor>>

\* dispose(reason)
Dispose ==
    /\ nDispose < MaxDispose
    /\ nDispose' = nDispose + 1
    /\ disposed' = TRUE
    /\ history' = <<>>
    /\ live' = {}
    /\ aborted' = aborted \cup {abortController}
    /\ last' = NoOutcome
    /\ UNCHANGED <<idVars, abortController, totalWaitTime, paused, llmCalls, pc, step,
                   llmSignal, decision, output, result, trace, nEmit, calledDisposed>>
    /\ UNCHANGED <<nav, owner, ctor>>

\* the constructor's beforeunload listener
PageUnload ==
    /\ ~disposed
    /\ Dispose

\* one pass of a call through its next await
LoopStep(c) ==
    \/ \E ok \in BOOLEAN : BeforeTaskDone(c, ok)
    \/ \E ok \in BOOLEAN : BeforeStepDone(c, ok)
    \/ Pause1(c)
    \/ LlmReject(c)
    \/ LlmFail(c)
    \/ \E d \in Decisions : LlmDecoded(c, d)
    \/ Pause2(c)
    \/ ToolThrow(c)
    \/ \E dur \in Durations : ToolReturn(c, dur)
    \/ DelayDone(c)
    \/ \E ok \in BOOLEAN : AfterStepDone(c, ok)
    \/ \E ok \in BOOLEAN : AfterTaskDone(c, ok)
    \/ \E ok \in BOOLEAN : AfterTaskCatchDone(c, ok)

Next ==
    \/ \E c \in Calls, t \in TaskArgs : ExecuteCall(c, t)
    \/ \E c \in Calls : LoopStep(c)
    \/ \E b \in BOOLEAN : SetPaused(b)
    \/ Dispose
    \/ PageUnload

Spec == Init /\ [][Next]_vars

\* ------------------------------------------- tasks run one after another

\* a wait of one second, which the model may select as well
ShortWait == Dec("wait", 1, {}, FALSE, "")

\* no execute() call is in progress
NoTaskRunning == \A c \in Calls : pc[c] \in {"idle", "returned", "thrown"}

\* execute(task) called while no earlier call is in progress
ExecuteAlone(c, t) == NoTaskRunning /\ ExecuteCall(c, t)

\* the agent used for one task at a time, the model free to select waits of
\* one and of two seconds
SeqNext ==
    \/ \E c \in Calls, t \in TaskArgs : ExecuteAlone(c, t)
    \/ \E c \in Calls : LoopStep(c)
    \/ \E c \in Calls : LlmDecoded(c, ShortWait)
    \/ \E c \in Calls, d \in MalformedDecisions : LlmDecoded(c, d)
    \/ \E b \in BOOLEAN : SetPaused(b)
    \/ Dispose
    \/ PageUnload

SeqSpec == Init /\ [][SeqNext]_vars

\* ------------------------------- dispose() arriving during a tool execution

\* a tool of the running task is executing
ToolExecuting == \E c \in Calls : pc[c] = "tool"

\* dispose() called, or the page unloaded, while a tool is executing
DisposeInTool == ToolExecuting /\ Dispose

PageUnloadInTool == ToolExecuting /\ PageUnload

\* one pass of a call through its next await when no signal is aborted during
\* a model call: the model client fails or decodes
LoopStepNoReject(c) ==
    \/ \E ok \in BOOLEAN : BeforeTaskDone(c, ok)
    \/ \E ok \in BOOLEAN : BeforeStepDone(c, ok)
    \/ Pause1(c)
    \/ LlmFail(c)
    \/ \E d \in Decisions : LlmDecoded(c, d)
    \/ Pause2(c)
    \/ ToolThrow(c)
    \/ \E dur \in Durations : ToolReturn(c, dur)
    \/ DelayDone(c)
    \/ \E ok \in BOOLEAN : AfterStepDone(c, ok)
    \/ \E ok \in BOOLEAN : AfterTaskDone(c, ok)
    \/ \E ok \in BOOLEAN : AfterTaskCatchDone(c, ok)

\* one task at a time; the only dispose() comes while a tool is executing
DisposeNext ==
    \/ \E c \in Calls, t \in TaskArgs : ExecuteAlone(c, t)
    \/ \E c \in Calls : LoopStepNoReject(c)
    \/ \E b \in BOOLEAN : SetPaused(b)
    \/ DisposeInTool
    \/ PageUnloadInTool

DisposeSpec == Init /\ [][DisposeNext]_vars

\* ------------------------------------------------ the constructor alone

Construct ==
    /\ ~ctor.constructed
    /\ ctor' = Constructed(ctor.customTools)
    /\ UNCHANGED <<shared, local, last, nav>>

CtorInit ==
    /\ AgentInit
    /\ nav = NavStart(FALSE)
    /\ \E ct \in CustomToolsChoices : ctor = Unconstructed(ct)

CtorNext == Construct

CtorSpec == CtorInit /\ [][CtorNext]_vars

\* The detector alone: the agent never touches it (PageAgent.ts only re-exports it).
NavInit ==
    /\ AgentInit
    /\ \E h \in BOOLEAN : nav = NavStart(h)
    /\ ctor = Constructed(ConfiguredCustomTools)

NavNext ==
    \/ \E d \in Detectors : Enable(d)
    \/ \E d \in Detectors : Disable(d)
    \/ \E a \in Apis : ThirdPartyPatch(a)
    \/ \E a \in Apis : CallApi(a)

NavSpec == NavInit /\ [][NavNext]_vars

\* The detectors' event handlers: clicks, their timers, and beforeunload.
UnloadNext ==
    \/ \E d \in Detectors : Enable(d)
    \/ \E d \in Detectors : Disable(d)
    \/ \E predicted \in BOOLEAN : Click(predicted)
    \/ \E d \in Detectors : TimerFire(d)
    \/ Tick
    \/ BeforeUnload

UnloadSpec == NavInit /\ [][UnloadNext]_vars

\* ---------------------------------------------------------------- claims

\* the #onDone and onAfterTask entries of a call's trace, in order
IsNotification(e) == e.ev \in {"onDone", "onAfterTask"}
Notifications(tr) == SelectSeq(tr, IsNotification)

\* an execute() call has just settled
Settled == last.kind \in {"returned", "thrown"}

\* C1: every execute() call that returns a result returns a history of at most
\* MAX_STEPS records.
C1_HistoryAtMostMaxSteps ==
    last.kind = "returned" => Len(last.result.history) <= MAX_STEPS

\* C2: once a second execute() has replaced the agent's controller, the signal
\* that a first, still running execute() handed to its in-flight #llm.invoke is
\* aborted: an in-flight model call holds the current signal or an aborted one.
C2_SupersededSignalAborted ==
    \A c \in Calls :
        (pc[c] = "llm" /\ llmSignal[c] # abortController) => llmSignal[c] \in aborted

\* C2, the case: call c waits for the model client, call d passed its
\* controller swap after c's invoke and stands at its first onBeforeStep, nobody
\* disposed the agent, and c's signal is aborted.
C2_Witness ==
    \E c, d \in Calls :
        /\ c # d
        /\ pc[c] = "llm"
        /\ pc[d] = "beforeStep"
        /\ step[d] = 0
        /\ ~disposed
        /\ llmSignal[c] # abortController
        /\ llmSignal[c] \in aborted

\* C3: for a non-empty task, when an error of the loop body (decode failure,
\* tool not found, tool failure, observed abort) ended the loop, execute() does
\* not throw that error, and the result it returns is the Failure with the
\* error's text and with the records the task had accumulated: one per step the
\* call completed, in order.
C3_LoopErrorGivesFailureWithHistory ==
    LET n == Notifications(last.trace)
        LoopErrors == {ErrDecode, ErrToolNotFound, ErrTool, ErrAbort, ErrLlmAbort}
        h == last.result.history
    IN  (Settled /\ n # <<>> /\ n[1].data \in LoopErrors) =>
            /\ last.kind = "thrown" => last.err \notin LoopErrors
            /\ last.kind = "returned" =>
                /\ last.result.success = FALSE
                /\ last.result.data = n[1].data
                /\ Len(h) = last.step
                /\ \A i \in 1..Len(h) : h[i].by = last.call /\ h[i].step = i - 1

\* C4: on every path by which execute() terminates a task, #onDone fired
\* exactly once, then onAfterTask was invoked exactly once, and when execute()
\* returns, both carried the success flag and the data of the returned result.
C4_DoneOnceThenAfterTaskOnce ==
    LET n == Notifications(last.trace)
    IN  (Settled /\ n # <<>>) =>
            /\ Len(n) = 2
            /\ n[1].ev = "onDone"
            /\ n[2].ev = "onAfterTask"
            /\ last.kind = "returned" =>
                /\ n[1].ok = last.result.success
                /\ n[2].ok = last.result.success
                /\ n[2].data = last.result.data

\* C5: when the step counter of a call exceeded MAX_STEPS and its last decision
\* was not done, execute() returns success = false and data = "Step count
\* exceeded maximum limit".
C5_StepLimitResult ==
    (Settled /\ last.step > MAX_STEPS /\ last.decision.name # "done") =>
        /\ last.kind = "returned"
        /\ last.result.success = FALSE
        /\ last.result.data = "Step count exceeded maximum limit"

C7_NoModelCallWhilePaused ==
    [][paused => llmCalls' = llmCalls]_vars

\* C7, the case: a call stands at the pause check before its model call while
\* paused is set, and the model client would still serve it.
C7_Witness ==
    \E c \in Calls :
        /\ pc[c] = "pause1"
        /\ paused
        /\ llmCalls >= 1
        /\ llmCalls < MaxLlmCalls

\* C8: a call blocked at a pause point while paused is set can go on as soon as
\* the current controller's signal is aborted.
C8_AbortUnblocksPause ==
    \A c \in Calls :
        (pc[c] \in {"pause1", "pause2"} /\ paused /\ abortController \in aborted)
            => ENABLED LoopStep(c)

\* C9: an execute(task) called after dispose() starts no model-client call and
\* executes no tool, and what its caller gets is an error, not a result.
C9_ExecuteAfterDisposeFails ==
    /\ \A c \in Calls : calledDisposed[c] => pc[c] \notin {"llm", "tool"}
    /\ (Settled /\ last.calledDisposed) => last.kind = "thrown"

\* C10: the step that rejects an execute() call for its empty task changes
\* neither task, taskId, history, the current controller, any signal nor the
\* wait accumulator, invokes no hook and emits no event; and a call that is not
\* rejected has a non-empty task.
C10_EmptyTaskRejectedUntouched ==
    [][ \A c \in Calls :
            /\ (pc[c] = "idle" /\ pc'[c] = "thrown") =>
                /\ last'.err = ErrTaskRequired
                /\ UNCHANGED <<task, taskId, history, abortController, aborted,
                               totalWaitTime, trace, nEmit>>
            /\ (pc[c] = "idle" /\ pc'[c] = "beforeTask") => task' # ""
      ]_vars

\* C10, the case: an empty-task call was just rejected on an agent that holds
\* a task, a task id, history records and a non-zero wait accumulator.
C10_Witness ==
    /\ last.kind = "thrown"
    /\ last.err = ErrTaskRequired
    /\ task # ""
    /\ taskId > 0
    /\ Len(history) > 0
    /\ totalWaitTime > 0

\* C11 as stated: a wait step adds its requested seconds to the accumulator, so
\* that after consecutive waits it is the sum of the requested durations; any
\* other step sets it to zero and has no advisory in its output.
C11_AccumulatorIsSumOfRequested ==
    [][ \A c \in Calls :
            (pc[c] = "tool" /\ pc'[c] = "delay") =>
                IF decision[c].name = "wait"
                THEN totalWaitTime' = totalWaitTime + decision[c].seconds
                ELSE totalWaitTime' = 0 /\ ~output'[c].advisory
      ]_vars

\* C11, amended: a wait step adds its requested seconds plus the measured
\* latency of the tool, rounded to whole seconds, to the accumulator as it
\* stood, and its output has the advisory exactly when the sum reached 3; any
\* other step sets the accumulator to zero and its output, also as recorded in
\* the history, has no <sys> suffix and no advisory.
C11_WaitAddsRequestedPlusLatency ==
    [][ \A c \in Calls :
            /\ (pc[c] = "tool" /\ pc'[c] = "delay") =>
                IF decision[c].name = "wait"
                THEN /\ \E dur \in Durations :
                            totalWaitTime' = totalWaitTime
                                + ((decision[c].seconds * 1000 + dur + 500) \div 1000)
                     /\ output'[c] = [sys |-> TRUE, advisory |-> totalWaitTime' >= 3]
                ELSE /\ totalWaitTime' = 0
                     /\ output'[c] = [sys |-> FALSE, advisory |-> FALSE]
            /\ (pc[c] = "delay" /\ pc'[c] = "afterStep") =>
                LET rec == history'[Len(history')]
                IN  /\ rec.name = decision[c].name
                    /\ rec.output = output[c]
                    /\ rec.name # "wait" => ~rec.output.advisory /\ ~rec.output.sys
      ]_vars

\* C11, the case: in one task, a wait whose output had no advisory is recorded
\* and a wait of one second has just returned: the accumulator is 3.
C11_Witness ==
    \E c \in Calls :
        /\ pc[c] = "delay"
        /\ step[c] = 1
        /\ decision[c] = ShortWait
        /\ Len(history) = 1
        /\ history[1].by = c
        /\ history[1].name = "wait"
        /\ ~history[1].output.advisory
        /\ totalWaitTime = 3
        /\ output[c].advisory

\* C12: the name of a tool removed by a null entry of customTools is no key of
\* the composed action schema; no tool is ever executed for a decision that
\* names it; when the macro tool looks the name up, the task ends with the
\* tool-not-found Failure, which is what execute() then returns.
C12_RemovedToolNotFound ==
    [][ /\ RemovedTools \cap ActionSchema = {}
        /\ \A c \in Calls :
            /\ pc'[c] \in {"tool", "delay"} => decision'[c].name \notin RemovedTools
            /\ ( /\ pc[c] = "pause2"
                 /\ pc'[c] # "pause2"
                 /\ decision[c].name \in RemovedTools ) =>
                    LET n == Len(trace'[c])
                    IN  /\ pc'[c] = "afterTaskC"
                        /\ result'[c].success = FALSE
                        /\ result'[c].data = "Error: tool not found"
                        /\ trace'[c][n - 1] = Ev("onDone", 0, 0, FALSE, "Error: tool not found")
                        /\ UNCHANGED <<history, totalWaitTime>>
        /\ LET n == Notifications(last'.trace)
           IN  ( /\ last'.kind = "returned"
                 /\ n # <<>>
                 /\ n[1].data = "Error: tool not found" ) =>
                    /\ last'.result.success = FALSE
                    /\ last'.result.data = "Error: tool not found"
      ]_vars

\* C12, the case: the model's decision named the removed tool ask_user, and
\* execute() returned the tool-not-found Failure.
C12_Witness ==
    /\ "ask_user" \in RemovedTools
    /\ last.kind = "returned"
    /\ last.decision.name = "ask_user"
    /\ last.result.success = FALSE
    /\ last.result.data = "Error: tool not found"

\* C13: every execute() with a non-empty task empties the history before its
\* first step, and every record of the history an execute() call returns was
\* produced by a step of that call, also when calls overlap.
C13_ReturnedHistoryIsOwn ==
    [][ /\ \A c \in Calls :
            (pc[c] = "beforeTask" /\ pc'[c] = "beforeStep") => history' = <<>>
        /\ last'.kind = "returned" =>
            \A i \in 1..Len(last'.result.history) :
                last'.result.history[i].by = last'.call
      ]_vars

\* C14: while a task runs, every step leaves the earlier history a prefix of
\* the later one, and the history execute() returns has at least the records
\* each onAfterStep call of the task was given, also when dispose() is called
\* while the task runs.
C14_HistoryOnlyGrows ==
    [][ /\ (\E c \in Calls : pc[c] \in {"beforeStep", "pause1", "llm", "pause2", "tool",
                                        "delay", "afterStep", "afterTask", "afterTaskC"}) =>
            /\ Len(history) <= Len(history')
            /\ SubSeq(history', 1, Len(history)) = history
        /\ last'.kind = "returned" =>
            \A i \in 1..Len(last'.trace) :
                last'.trace[i].ev = "onAfterStep" =>
                    last'.trace[i].len <= Len(last'.result.history)
      ]_vars

\* C15: enable() followed by disable(), with nothing else patching the APIs in
\* between, leaves every patched browser API with the implementation it had
\* before enable() and no listener of the detector registered; calling
\* enable() on an enabled detector or disable() on a disabled one changes
\* nothing.
C15_DisableRestoresApis ==
    [][\A d \in Detectors :
          /\ (nav.enabled[d] /\ ~nav'.enabled[d] /\ nav.clean[d]) =>
                /\ nav'.impl = nav.pre[d]
                /\ \A e \in Events : nav'.listeners[d][e] = 0
          /\ (nav.enabled[d] = nav'.enabled[d] /\ nav.nPatches = nav'.nPatches) =>
                /\ nav'.impl = nav.impl
                /\ nav'.listeners = nav.listeners
                /\ nav'.wrappedFunctions[d] = nav.wrappedFunctions[d]]_vars

\* C16: at no time are two model-client calls, or two tool executions, of the
\* same agent in flight together (a superseded loop starts no further one).
\* A model call whose signal has been cancelled is read as no longer in flight.
C16_OneCallInFlight ==
    /\ Cardinality({c \in Calls : pc[c] = "llm" /\ llmSignal[c] \notin aborted}) <= 1
    /\ Cardinality({c \in Calls : pc[c] = "tool"}) <= 1

Terminates(c) ==
    /\ pc[c] \notin {"afterTask", "afterTaskC"}
    /\ pc'[c] \in {"afterTask", "afterTaskC"}

\* C17: a controller's signal becomes aborted only in the prologue of a later
\* execute(), in dispose(), or at the termination (#onDone) of the task whose
\* prologue installed it; the termination of a superseded task never aborts
\* the controller of the task that superseded it.
C17_TokenCancelledOnlyByOwner ==
    [][(aborted' # aborted) =>
          \/ abortController' # abortController
          \/ nDispose' # nDispose
          \/ \E c \in Calls : Terminates(c) /\ owner = c]_vars

\* C18: a decision whose action object has zero keys or more than one key
\* fails the step: the task ends with a Failure result and no tool is
\* executed for that decision.
C18_MalformedActionFails ==
    [][\A c \in Calls :
          (pc[c] = "pause2" /\ pc'[c] # "pause2" /\ Len(decision[c].action) # 1) =>
              /\ pc'[c] = "afterTaskC"
              /\ ~result'[c].success]_vars

\* C19: the wait accumulator is scoped to one task: when the prologue of an
\* execute() has run it is zero, so the advisory of a wait step is decided by
\* the waits of that task alone.
C19_AccumulatorZeroAtTaskStart ==
    [][\A c \in Calls :
          (pc[c] = "beforeTask" /\ pc'[c] = "beforeStep") => totalWaitTime' = 0]_vars

\* C20: the step-limit check precedes the done check: when a step that
\* selected done completes, the result is the step-limit Failure if the step
\* counter now exceeds the maximum and the done tool's result otherwise, and
\* that result is what execute() returns.
C20_StepLimitBeforeDone ==
    [][\A c \in Calls :
          /\ (pc[c] = "afterStep" /\ decision[c].name = "done" /\ pc'[c] # "afterStep") =>
                /\ pc'[c] \in {"afterTask", "afterTaskC"}
                /\ pc'[c] = "afterTask" =>
                      IF step[c] + 1 > MAX_STEPS
                      THEN /\ ~result'[c].success
                           /\ result'[c].data = StepLimitText
                      ELSE /\ result'[c].success = DoneSuccess(decision[c])
                           /\ result'[c].data = DoneText(decision[c])
          /\ (pc[c] = "afterTask" /\ pc'[c] = "returned") =>
                /\ last'.result.success = result[c].success
                /\ last'.result.data = result[c].data]_vars

C20_Witness ==
    \E c \in Calls :
        /\ pc[c] = "afterTask"
        /\ decision[c] = Dec("done", 0, {"success", "text"}, TRUE, "X")
        /\ step[c] = MAX_STEPS + 1
        /\ result[c].data = StepLimitText
        /\ ~result[c].success

\* the task that was running when dispose() came
DisposedWhileRunning(c) ==
    /\ disposed
    /\ ~calledDisposed[c]
    /\ pc[c] \notin {"idle", "returned", "thrown"}

\* C21: when dispose() cancels the current token while a tool is executing,
\* the tool execution is not interrupted, the running task starts no further
\* model-client call and no further tool execution, and if its execute()
\* returns, it returns a Failure result.
C21_DisposeDuringToolGivesFailure ==
    [][\A c \in Calls :
          /\ (pc[c] = "tool" /\ ~disposed /\ disposed') =>
                (pc'[c] = "tool" /\ decision'[c] = decision[c])
          /\ DisposedWhileRunning(c) =>
                /\ pc'[c] = "llm" => pc[c] = "llm"
                /\ pc'[c] = "tool" => pc[c] = "tool"
                /\ pc'[c] = "returned" => ~last'.result.success]_vars

\* C22: a tool is never started while paused is set (the decision waits at the
\* second suspension point until paused is cleared), and setting or clearing
\* paused while a tool is executing leaves that execution running and able
\* to return.
C22_NoToolStartWhilePaused ==
    [][\A c \in Calls :
          /\ (pc[c] # "tool" /\ pc'[c] = "tool") => (pc[c] = "pause2" /\ ~paused)
          /\ (pc[c] = "pause2" /\ paused) => pc'[c] = "pause2"
          /\ (pc[c] = "tool" /\ paused' # paused) =>
                (pc'[c] = "tool" /\ decision'[c] = decision[c])
          /\ (pc[c] = "tool" /\ paused) => ENABLED ToolReturn(c, 0)]_vars

\* C22, the case: a decision naming a registered tool has been received and
\* has passed the abort check, its tool has not started, and paused is set.
C22_Witness ==
    \E c \in Calls :
        /\ pc[c] = "pause2"
        /\ paused
        /\ decision[c].name \in tools
        /\ abortController \notin aborted

\* the hook calls among tr[1..k-1] that satisfy `ev`
CountBefore(tr, k, ev) == Cardinality({j \in 1..(k - 1) : tr[j].ev = ev})

\* the order of the hook calls of one task, as far as it has run
HooksInOrder(tr) ==
    \A k \in 1..Len(tr) :
        /\ tr[k].ev = "onBeforeTask" <=> k = 1
        /\ tr[k].ev = "onBeforeStep" =>
              /\ tr[k].n = CountBefore(tr, k, "onAfterStep")
              /\ tr[k].n = CountBefore(tr, k, "onBeforeStep")
              /\ CountBefore(tr, k, "onAfterTask") = 0
        /\ tr[k].ev = "onAfterStep" =>
              /\ tr[k - 1].ev = "onBeforeStep"
              /\ tr[k].n = tr[k - 1].n
              /\ tr[k].len = tr[k].n + 1
              /\ CountBefore(tr, k, "onAfterTask") = 0

\* C23: within one task the hooks fire in a fixed order: onBeforeTask first
\* and once; onBeforeStep(i) with i the number of steps completed so far;
\* onAfterStep(i) after step i's record was appended, with a history of
\* length i + 1; no step hook after onAfterTask.
C23_HooksInOrder == \A c \in Calls : HooksInOrder(trace[c])

\* in a task on an agent that is not disposed: from the start of a step to the
\* end of its tool execution the history holds one record per earlier step
\* (its length is the step counter), and after the append one more
RecordsMatchSteps ==
    \A c \in Calls :
        (~disposed /\ pc[c] \in {"beforeStep", "pause1", "llm", "pause2", "tool", "delay",
                                  "afterStep"}) =>
            /\ Len(history) = step[c] + (IF pc[c] = "afterStep" THEN 1 ELSE 0)
            /\ \A i \in 1..Len(history) : history[i].step = i - 1 /\ history[i].by = c

\* C24: in a task that runs alone on an agent that is not disposed, one record
\* is appended per step whose model call and tool execution completed and none
\* by a step that fails: at every decision request the step counter equals
\* the history length.
C24_OneRecordPerCompletedStep ==
    [][/\ RecordsMatchSteps'
       /\ \A c \in Calls :
             (~disposed' /\ pc'[c] = "afterTaskC"
                /\ pc[c] \in {"beforeStep", "pause1", "llm", "pause2", "tool"}) =>
                 history' = history]_vars

\* C24, the case: the second decision request of a task, after one completed step
C24_Witness ==
    \E c \in Calls :
        /\ ~disposed
        /\ pc[c] = "llm"
        /\ step[c] = 1
        /\ Len(history) = 1

\* C25: after construction the registry is the built-in set with every
\* customTools name mapped to null removed and every name mapped to a tool
\* inserted or replaced by that tool; built-in tools not named in customTools
\* are unchanged.  The agent whose tasks are modelled has that registry.
C25_RegistryFromCustomTools ==
    /\ DOMAIN Registry(ConfiguredCustomTools) = tools
    /\ ctor.constructed =>
          LET ct == ctor.customTools
              reg == ctor.tools
          IN  \A n \in ToolNames :
                  /\ (n \in DOMAIN ct /\ ct[n] = "null") => n \notin DOMAIN reg
                  /\ (n \in DOMAIN ct /\ ct[n] # "null") => (n \in DOMAIN reg /\ reg[n] = ct[n])
                  /\ (n \notin DOMAIN ct) =>
                        (n \in DOMAIN reg <=> n \in BuiltinTools)
                  /\ (n \notin DOMAIN ct /\ n \in BuiltinTools) => reg[n] = "builtin"

\* C25, the case: a built-in replaced, another removed, a new tool added, the
\* remaining built-ins kept
C25_Witness ==
    /\ ctor.constructed
    /\ ctor.customTools = [n \in {"click", "ask_user", "extra"} |->
                              IF n = "ask_user" THEN "null" ELSE "custom"]
    /\ ctor.tools = [n \in {"click", "wait", "done", "extra"} |->
                        IF n \in {"click", "extra"} THEN "custom" ELSE "builtin"]

\* C26: with several detectors, each call of location.assign, location.replace
\* or the location.href setter invokes the callback of every detector enabled
\* at that moment exactly once and the callback of no disabled detector.
C26_EachEnabledDetectorNotifiedOnce ==
    [][(nav'.nApiCalls # nav.nApiCalls /\ nav'.called \in LocationApis) =>
          \A d \in Detectors :
              nav'.delivered[d] = IF nav.enabled[d] THEN 1 ELSE 0]_vars

\* C27: while a detector is enabled, a beforeunload that fires less than
\* 100 ms after a click it predicted a navigation from delivers that click's
\* prediction to its callback, also when earlier clicks came shortly before;
\* every beforeunload delivers exactly one event.
C27_UnloadDeliversLatestPrediction ==
    [][nav'.nUnloads # nav.nUnloads =>
          \A d \in Detectors :
              nav.enabled[d] =>
                  /\ Len(nav'.unload[d]) = 1
                  /\ (nav.clickPred[d] # 0
                        /\ nav.now - nav.clickAt[d] < PredictionTimeoutMs) =>
                         nav'.unload[d][1] = PredictionEvent(nav.clickPred[d])]_vars

====
